---- MODULE Spec2Model ----
(***************************************************************************)
(* Multi-user hybrid-encryption envelope:                                  *)
(*   src/src/utils/crypto.ts                 the primitive adapter         *)
(*   src/src/services/multiUserEncryption.ts MultiUserEncryptionService    *)
(*                                                                         *)
(* The cryptographic libraries (crypto-js, node-rsa) are modelled          *)
(* symbolically: a ciphertext is a term that remembers the key it was made *)
(* under and what it holds; decrypting yields the content exactly when the *)
(* key fits.  Where the outcome of a library call depends on bytes the     *)
(* model does not hold (a wrong AES passphrase, an input that is no RSA    *)
(* ciphertext) every outcome the library can produce is kept, chosen by an *)
(* oracle argument o.                                                      *)
(***************************************************************************)
EXTENDS Naturals, Sequences, FiniteSets, TLC

\* ------------------------------------------------------------------ bounds
\* Most entries of the recipient map handed to encryptForMultipleUsers.
MaxRecipients == 2
\* Longest authorizedUsers list addUserAccess is still applied to.
MaxUsers == 2

\* ------------------------------------------------------------- input sets
\* Recipient identifiers.  They are property names of a JavaScript object
\* (Record<string, string>), so a name every object inherits from
\* Object.prototype is among them.
Ids == {"alice", "bob", "constructor", "__proto__"}

\* Property names an object literal inherits from Object.prototype:
\* obj.constructor is the function Object, obj.__proto__ is Object.prototype.
InheritedNames == {"constructor", "__proto__"}

\* Of these, the ones that are accessors: assigning a string to obj.__proto__
\* runs Object.prototype's setter, which ignores it and creates nothing.
SetterNames == {"__proto__"}

PublicKeys == {"pkA", "pkB", "pkMalformed"}
PrivateKeys == {"skA", "skB", "skMalformed"}

\* KeyPair (crypto.ts:4-7, generateKeyPair): the pairs that belong together.
KeyPairs == {<<"pkA", "skA">>, <<"pkB", "skB">>}

Plaintexts == {"", "secret-42"}

\* generateAESKey / generateIV draw from these.
AesKeys == {"k1", "k2"}
Ivs == {"iv1"}

\* What a library call does where the model cannot decide it.
\*   rsa: node-rsa given something that is no RSA ciphertext (an object, a
\*        function, a string that is not one) raises, or finds zero blocks
\*        to decrypt and yields the empty string.
\*   aes: crypto-js given the wrong passphrase or a damaged ciphertext strips
\*        the padding unchecked; the bytes left are malformed or empty (an
\*        exception) or happen to be valid UTF-8 (returned as the text).
Oracles == [rsa : {"throw", "empty"}, aes : {"throw", "garbage"}]

\* A text no plaintext equals: what a wrong key decrypts to when the bytes
\* happen to be printable.
Garbage == "?garbage?"

\* An optional field that is not there (undefined).
Absent == "undefined"

\* ----------------------------------------------------- JavaScript values
\* The values found under a property of encryptedKeys.
\*   rsa      a base64 string, key wrapped under public key pk
\*   junk     a non-empty string that is no RSA ciphertext
\*   empty    the empty string
\*   object   Object.prototype       function  an inherited method
JsUndefined == [t |-> "undefined", key |-> "", pk |-> ""]
JsObject == [t |-> "object", key |-> "", pk |-> ""]
JsFunction == [t |-> "function", key |-> "", pk |-> ""]
JsJunk == [t |-> "junk", key |-> "", pk |-> ""]
JsEmpty == [t |-> "empty", key |-> "", pk |-> ""]

\* !v: undefined and the empty string are falsy.
Falsy(v) == v.t \in {"undefined", "empty"}

\* obj[k] read: an own property, else what the prototype chain gives.
Get(obj, k) ==
  IF k \in DOMAIN obj THEN obj[k]
  ELSE IF k \in SetterNames THEN JsObject
  ELSE IF k \in InheritedNames THEN JsFunction
  ELSE JsUndefined

\* A property written by plain assignment where the code uses a computed key
\* in an object literal: not what the code does, kept to show C20 tells them
\* apart.
DefineOwnAssign(obj, k, v) ==
  IF k \in SetterNames /\ k \notin DOMAIN obj THEN obj
  ELSE [x \in (DOMAIN obj) \cup {k} |-> IF x = k THEN v ELSE obj[x]]

\* An own property k created or overwritten.
DefineOwn(obj, k, v) ==
  [x \in (DOMAIN obj) \cup {k} |-> IF x = k THEN v ELSE obj[x]]

\* obj[k] = v: for "__proto__" with no own property of that name the
\* assignment reaches Object.prototype's setter, which ignores a string.
Put(obj, k, v) ==
  IF k \in SetterNames /\ k \notin DOMAIN obj THEN obj
  ELSE DefineOwn(obj, k, v)

\* { [k]: removed, ...rest } = obj: the own properties but k.
Omit(obj, k) == [x \in (DOMAIN obj) \ {k} |-> obj[x]]

\* ----------------------------------------------------------- exceptions
\* The value or the exception of a call.  An error is the chain of message
\* prefixes, outermost first: `${prefix}: ${error}` prepends one.
Ok(v) == [threw |-> FALSE, val |-> v, error |-> <<>>]
Throw(msg) == [threw |-> TRUE, val |-> Absent, error |-> <<msg>>]
Rethrow(prefix, r) == [threw |-> TRUE, val |-> Absent, error |-> <<prefix>> \o r.error]

\* ------------------------------------------------ crypto.ts: primitives
\* crypto.ts:60-71.  The key is a string, so crypto-js takes it as a
\* passphrase and derives key and IV from it and a random salt; the iv
\* option is overwritten.  The ciphertext term records what opens it.
\* The term also keeps the iv the call was given.
encryptWithAES(data, key, iv) == [t |-> "aes", key |-> key, data |-> data, iv |-> iv]

CtJunk == [t |-> "junk", key |-> "", data |-> "", iv |-> ""]
CtNone == [t |-> "none", key |-> "", data |-> "", iv |-> ""]

\* A decryption without the test of crypto.ts:85-87, returning the empty
\* text as it comes: not what the code does, kept to show C25 tells them
\* apart.
decryptWithAESUnchecked(ciphertext, key, iv, o) ==
  Ok(IF ciphertext.t = "aes" /\ ciphertext.key = key THEN ciphertext.data
     ELSE IF o.aes = "garbage" THEN Garbage
     ELSE "")

\* crypto.ts:76-93
decryptWithAES(ciphertext, key, iv, o) ==
  LET decryptedText ==
        IF ciphertext.t = "aes" /\ ciphertext.key = key THEN ciphertext.data
        ELSE IF o.aes = "garbage" THEN Garbage
        ELSE ""
  IN IF decryptedText = "" THEN Throw("AES decryption failed") ELSE Ok(decryptedText)

\* crypto.ts:98-106
encryptWithRSA(data, publicKey) ==
  IF publicKey \notin {p[1] : p \in KeyPairs}
  THEN Throw("RSA encryption failed")
  ELSE Ok([t |-> "rsa", key |-> data, pk |-> publicKey])

\* crypto.ts:111-119.  A malformed private key fails in importKey; an RSA
\* ciphertext opens under the private key of its pair and fails under any
\* other (OAEP padding).  A function has a length and no slice(): raising.
\* For the other inputs that are no RSA ciphertext the oracle decides.
decryptWithRSA(ciphertext, privateKey, o) ==
  IF privateKey \notin {p[2] : p \in KeyPairs}
  THEN Throw("RSA decryption failed")
  ELSE IF ciphertext.t = "rsa"
  THEN IF <<ciphertext.pk, privateKey>> \in KeyPairs
       THEN Ok(ciphertext.key)
       ELSE Throw("RSA decryption failed")
  ELSE IF ciphertext.t # "function" /\ o.rsa = "empty"
  THEN Ok("")
  ELSE Throw("RSA decryption failed")

\* ------------------------------------- multiUserEncryption.ts: the service
AccessDeniedMsg == "Access denied: User not authorized to decrypt this data"
Algorithm == "AES-256-CBC + RSA-2048"

\* No envelope (a call that threw returns none; nothing is built yet).
NoEnv ==
  [ciphertext |-> CtNone, iv |-> "", encryptedKeys |-> <<>>,
   authorizedUsers |-> <<>>,
   metadata |-> [timestamp |-> Absent, encryptedBy |-> Absent, algorithm |-> Absent]]

\* A loop that would skip over a recipient whose wrapping fails and return
\* what it has: not what the code does, kept to show C10 tells them apart.
RECURSIVE WrapForEachSkipping(_, _, _, _)
WrapForEachSkipping(entries, aesKey, encryptedKeys, authorizedUsers) ==
  IF entries = <<>>
  THEN Ok([encryptedKeys |-> encryptedKeys, authorizedUsers |-> authorizedUsers])
  ELSE LET userId == Head(entries)[1]
           publicKey == Head(entries)[2]
           encryptedAesKey == encryptWithRSA(aesKey, publicKey)
       IN IF encryptedAesKey.threw
          THEN WrapForEachSkipping(Tail(entries), aesKey, encryptedKeys,
                                   authorizedUsers)
          ELSE WrapForEachSkipping(Tail(entries), aesKey,
                                   Put(encryptedKeys, userId, encryptedAesKey.val),
                                   Append(authorizedUsers, userId))

\* multiUserEncryption.ts:34-38, the loop over Object.entries(userPublicKeys):
\* entries are <<userId, publicKey>> in the map's iteration order.  An
\* exception of encryptWithRSA leaves the loop.
RECURSIVE WrapForEach(_, _, _, _)
WrapForEach(entries, aesKey, encryptedKeys, authorizedUsers) ==
  IF entries = <<>>
  THEN Ok([encryptedKeys |-> encryptedKeys, authorizedUsers |-> authorizedUsers])
  ELSE LET userId == Head(entries)[1]
           publicKey == Head(entries)[2]
           encryptedAesKey == encryptWithRSA(aesKey, publicKey)
       IN IF encryptedAesKey.threw THEN encryptedAesKey
          ELSE WrapForEach(Tail(entries), aesKey,
                           Put(encryptedKeys, userId, encryptedAesKey.val),
                           Append(authorizedUsers, userId))

\* multiUserEncryption.ts:51-53
encryptCatch(r) ==
  IF r.threw THEN Rethrow("Multi-user encryption failed", r) ELSE r

\* A builder that would put the key where the iv belongs: not what the code
\* does, kept to show C15 tells them apart.
encryptForMultipleUsersKeyAsIv(data, userPublicKeys, encryptedBy, aesKey, iv, now) ==
  LET wrapped == WrapForEach(userPublicKeys, aesKey, <<>>, <<>>)
  IN encryptCatch(
       IF wrapped.threw THEN wrapped
       ELSE Ok([ciphertext |-> encryptWithAES(data, aesKey, iv),
                encryptedKeys |-> wrapped.val.encryptedKeys,
                iv |-> aesKey,
                authorizedUsers |-> wrapped.val.authorizedUsers,
                metadata |-> [timestamp |-> now, encryptedBy |-> encryptedBy,
                              algorithm |-> Algorithm]]))

\* multiUserEncryption.ts:17-54.  aesKey, iv and now are what generateAESKey(),
\* generateIV() and new Date() return in this call.
encryptForMultipleUsers(data, userPublicKeys, encryptedBy, aesKey, iv, now) ==
  LET ciphertext == encryptWithAES(data, aesKey, iv)
      wrapped == WrapForEach(userPublicKeys, aesKey, <<>>, <<>>)
  IN encryptCatch(
       IF wrapped.threw THEN wrapped
       ELSE Ok([ciphertext |-> ciphertext,
                encryptedKeys |-> wrapped.val.encryptedKeys,
                iv |-> iv,
                authorizedUsers |-> wrapped.val.authorizedUsers,
                metadata |-> [timestamp |-> now, encryptedBy |-> encryptedBy,
                              algorithm |-> Algorithm]]))

\* DecryptionResult (crypto.ts:21-26)
Result(success, data, error, userId) ==
  [success |-> success, data |-> data, error |-> error, userId |-> userId]

\* A call's outcome together with the primitives it invoked, in order.
Ran(r, calls) == [threw |-> r.threw, val |-> r.val, error |-> r.error, calls |-> calls]

\* multiUserEncryption.ts:64-89, the try block
decryptForUserTry(encryptedData, userId, privateKey, o) ==
  LET encryptedAesKey == Get(encryptedData.encryptedKeys, userId)
      aesKey == decryptWithRSA(encryptedAesKey, privateKey, o)
      decryptedData ==
        decryptWithAES(encryptedData.ciphertext, aesKey.val, encryptedData.iv, o)
  IN IF Falsy(encryptedAesKey)
     THEN Ran(Ok(Result(FALSE, Absent, <<AccessDeniedMsg>>, userId)), <<>>)
     ELSE IF aesKey.threw
     THEN Ran(aesKey, <<"decryptWithRSA">>)
     ELSE IF decryptedData.threw
     THEN Ran(decryptedData, <<"decryptWithRSA", "decryptWithAES">>)
     ELSE Ran(Ok(Result(TRUE, decryptedData.val, <<>>, userId)),
              <<"decryptWithRSA", "decryptWithAES">>)

\* A reader without its catch block: the exception leaves decryptForUser.
\* Not what the code does, kept to show C8 tells them apart.
decryptForUserNoCatch(r, userId) == r

\* multiUserEncryption.ts:90-96, the catch block
decryptForUserCatch(r, userId) ==
  IF r.threw
  THEN Ran(Ok(Result(FALSE, Absent, <<"Decryption failed">> \o r.error, userId)),
           r.calls)
  ELSE r

\* multiUserEncryption.ts:59-97 with the calls it made
decryptForUserRun(encryptedData, userId, privateKey, o) ==
  decryptForUserCatch(decryptForUserTry(encryptedData, userId, privateKey, o), userId)

\* multiUserEncryption.ts:59-97
decryptForUser(encryptedData, userId, privateKey, o) ==
  decryptForUserRun(encryptedData, userId, privateKey, o).val

\* multiUserEncryption.ts:137-139
addUserAccessCatch(r) ==
  IF r.threw THEN Rethrow("Failed to add user access", r) ELSE r

\* multiUserEncryption.ts:102-140.  decryptForUser is called inside the try
\* block, so an exception leaving it would be caught at 137-139.
addUserAccess(encryptedData, newUserId, newUserPublicKey, decryptorUserId, decryptorPrivateKey, o) ==
  LET run == decryptForUserRun(encryptedData, decryptorUserId,
                               decryptorPrivateKey, o)
      decryptResult == run.val
      encryptedAesKey == Get(encryptedData.encryptedKeys, decryptorUserId)
      aesKey == decryptWithRSA(encryptedAesKey, decryptorPrivateKey, o)
      newEncryptedAesKey == encryptWithRSA(aesKey.val, newUserPublicKey)
  IN addUserAccessCatch(
       IF run.threw THEN [threw |-> TRUE, val |-> Absent, error |-> run.error]
       ELSE IF ~decryptResult.success \/ decryptResult.data \in {Absent, ""}
       THEN Throw("Cannot add user access: Unable to decrypt data")
       ELSE IF aesKey.threw THEN aesKey
       ELSE IF newEncryptedAesKey.threw THEN newEncryptedAesKey
       ELSE Ok([encryptedData EXCEPT
                  !.encryptedKeys =
                     DefineOwn(encryptedData.encryptedKeys, newUserId,
                               newEncryptedAesKey.val),
                  !.authorizedUsers = Append(encryptedData.authorizedUsers, newUserId)]))

\* Array.prototype.filter(id => id !== userIdToRemove)
RECURSIVE FilterOut(_, _)
FilterOut(s, x) ==
  IF s = <<>> THEN <<>>
  ELSE IF Head(s) = x THEN FilterOut(Tail(s), x)
  ELSE <<Head(s)>> \o FilterOut(Tail(s), x)

\* A revocation by authorizedUsers.splice(indexOf(id), 1) on a copy: for an
\* absent id indexOf is -1 and the last element goes.  Not what the code
\* does, kept to show C13 tells them apart.
removeUserAccessSplice(encryptedData, userIdToRemove) ==
  LET a == encryptedData.authorizedUsers
      hits == {i \in 1..Len(a) : a[i] = userIdToRemove}
      at == IF hits = {} THEN Len(a) ELSE CHOOSE i \in hits : \A j \in hits : i <= j
  IN [encryptedData EXCEPT
        !.encryptedKeys = Omit(encryptedData.encryptedKeys, userIdToRemove),
        !.authorizedUsers = SubSeq(a, 1, at - 1) \o SubSeq(a, at + 1, Len(a))]

\* A revocation that would drop the wrapped key and leave the id listed: not
\* what the code does, kept to show C6 tells them apart.
removeUserAccessKeyOnly(encryptedData, userIdToRemove) ==
  [encryptedData EXCEPT
     !.encryptedKeys = Omit(encryptedData.encryptedKeys, userIdToRemove)]

\* multiUserEncryption.ts:145-157
removeUserAccess(encryptedData, userIdToRemove) ==
  [encryptedData EXCEPT
     !.encryptedKeys = Omit(encryptedData.encryptedKeys, userIdToRemove),
     !.authorizedUsers = FilterOut(encryptedData.authorizedUsers, userIdToRemove)]

\* Array.prototype.includes
Includes(s, x) == \E i \in 1..Len(s) : s[i] = x

\* multiUserEncryption.ts:162-165
hasAccess(encryptedData, userId) ==
  Includes(encryptedData.authorizedUsers, userId)
  /\ Get(encryptedData.encryptedKeys, userId) # JsUndefined

\* multiUserEncryption.ts:170-178
getEncryptionInfo(encryptedData) ==
  [authorizedUserCount |-> Len(encryptedData.authorizedUsers),
   authorizedUsers |-> encryptedData.authorizedUsers,
   encryptedAt |-> encryptedData.metadata.timestamp,
   encryptedBy |-> encryptedData.metadata.encryptedBy,
   algorithm |-> encryptedData.metadata.algorithm]

\* --------------------------------------------------------------- state
\* A caller holding one envelope and applying the service to it, one call
\* at a time.
\*   env     the envelope held (NoEnv before the first build)
\*   plain   the plaintext env was built from
\*   last    the call just made: its arguments, the envelope it was given
\*           and what it returned or threw; op = "none" between calls
\*   tampered  whether env was damaged outside the service (SpecTamper only)
\*   page    the state of the page component (page.tsx:25-33), which is one
\*           such caller; its encryptedData state is env (SpecPage only)
\*   heap    the objects of the JavaScript heap, by reference, where the
\*           envelopes are followed as objects and not as values (SpecHeap only)
VARIABLES env, plain, last, tampered, page, heap

vars == <<env, plain, last, tampered, page, heap>>

NoResult == Result(FALSE, Absent, <<>>, Absent)

Call(op, in, out, r, map, data, id, pk, sk, via, res, calls) ==
  [op |-> op, in |-> in, out |-> out, threw |-> r.threw, error |-> r.error,
   map |-> map, data |-> data, id |-> id, pk |-> pk, sk |-> sk, via |-> via,
   res |-> res, calls |-> calls]

NoCall ==
  Call("none", NoEnv, NoEnv, Ok(Absent), <<>>, Absent, Absent, Absent, Absent,
       Absent, NoResult, <<>>)

\* Recipient maps: entries in iteration order, no id twice.
RecipientMaps ==
  UNION {{m \in [1..n -> Ids \X PublicKeys] :
            \A i, j \in 1..n : i # j => m[i][1] # m[j][1]} : n \in 0..MaxRecipients}

\* page.tsx:76 passes 'demo-user'.
Creators == {"demo-user"}
Times == {"t1"}

\* page.tsx:25-33, the useState initial values (encryptedData null is env = NoEnv)
NoPage ==
  [users |-> <<>>, selectedUsers |-> <<>>, dataToEncrypt |-> "",
   decryptedData |-> "", selectedDecryptUser |-> "", loading |-> FALSE,
   error |-> "", decryptionAttempts |-> <<>>]

Init ==
  /\ env = NoEnv
  /\ plain = Absent
  /\ last = NoCall
  /\ tampered = FALSE
  /\ page = NoPage
  /\ heap = <<>>

\* encryptForMultipleUsers(data, m, by), called until it returns an envelope;
\* the caller keeps the envelope returned.
Build ==
  /\ last.op = "none"
  /\ env = NoEnv
  /\ \E data \in Plaintexts, m \in RecipientMaps, by \in Creators,
        aesKey \in AesKeys, iv \in Ivs, now \in Times :
       LET r == encryptForMultipleUsers(data, m, by, aesKey, iv, now)
           out == IF r.threw THEN NoEnv ELSE r.val
       IN /\ env' = IF r.threw THEN env ELSE out
          /\ plain' = IF r.threw THEN plain ELSE data
          /\ UNCHANGED <<tampered, page, heap>>
          /\ last' = Call("build", NoEnv, out, r, m, data, Absent, Absent, Absent,
                          Absent, NoResult, <<>>)

\* decryptForUser(env, userId, privateKey)
Decrypt ==
  /\ last.op = "none"
  /\ env # NoEnv
  /\ \E userId \in Ids, privateKey \in PrivateKeys, o \in Oracles :
       LET r == decryptForUserRun(env, userId, privateKey, o)
       IN last' = Call("decrypt", env, NoEnv, r, <<>>, Absent, userId, Absent,
                       privateKey, Absent,
                       IF r.threw THEN NoResult ELSE r.val, r.calls)
  /\ UNCHANGED <<env, plain, tampered, page, heap>>

\* addUserAccess(env, newUserId, newUserPublicKey, decryptorUserId,
\* decryptorPrivateKey); the caller keeps the envelope returned, if any.
Grant ==
  /\ last.op = "none"
  /\ env # NoEnv
  /\ Len(env.authorizedUsers) < MaxUsers
  /\ \E newUserId \in Ids, newUserPublicKey \in PublicKeys,
        decryptorUserId \in Ids, decryptorPrivateKey \in PrivateKeys,
        o \in Oracles :
       LET r == addUserAccess(env, newUserId, newUserPublicKey,
                              decryptorUserId, decryptorPrivateKey, o)
           out == IF r.threw THEN NoEnv ELSE r.val
       IN /\ env' = IF r.threw THEN env ELSE out
          /\ last' = Call("grant", env, out, r, <<>>, Absent, newUserId,
                          newUserPublicKey, decryptorPrivateKey, decryptorUserId,
                          NoResult, <<>>)
  /\ UNCHANGED <<plain, tampered, page, heap>>

\* removeUserAccess(env, userIdToRemove); the caller keeps the envelope returned.
Revoke ==
  /\ last.op = "none"
  /\ env # NoEnv
  /\ \E userIdToRemove \in Ids :
       LET out == removeUserAccess(env, userIdToRemove)
       IN /\ env' = out
          /\ last' = Call("revoke", env, out, Ok(Absent), <<>>, Absent,
                          userIdToRemove, Absent, Absent, Absent, NoResult, <<>>)
  /\ UNCHANGED <<plain, tampered, page, heap>>

\* The caller is done with the outcome of its call and goes on to the next.
Continue ==
  /\ last.op # "none"
  /\ last' = NoCall
  /\ UNCHANGED <<env, plain, tampered, page, heap>>

Next == Build \/ Decrypt \/ Grant \/ Revoke \/ Continue

Spec == Init /\ [][Next]_vars

\* The envelope is a plain serialisable record (EncryptedData, crypto.ts:9-19)
\* that leaves the service between calls: storage or transport may hand back
\* one field damaged.  A wrapped key may come back as a string that is no RSA
\* ciphertext, as the empty string, or as the wrapping of another key.
Damaged(e) ==
  {[e EXCEPT !.ciphertext = CtJunk], [e EXCEPT !.iv = "zz"]}
  \cup {[e EXCEPT !.encryptedKeys[k] = v] :
          k \in DOMAIN e.encryptedKeys, v \in {JsJunk, JsEmpty}}
  \cup ({[e EXCEPT !.encryptedKeys[k].key = a] :
            k \in DOMAIN e.encryptedKeys, a \in AesKeys} \ {e})

Tamper ==
  /\ last.op = "none"
  /\ env # NoEnv
  /\ ~tampered
  /\ tampered' = TRUE
  /\ env' \in Damaged(env)
  /\ UNCHANGED <<plain, last, page, heap>>

NextTamper == Next \/ Tamper

SpecTamper == Init /\ [][NextTamper]_vars

\* ------------------------------------------------- page.tsx: the component
\* Most users created in a session.
MaxPageUsers == 2
\* Longest ledger decryptData is still applied to.
MaxAttempts == 2

\* Display names typed into the page (the demo creates Alice, Bob, Charlie).
Names == {"Alice", "Bob"}

\* page.tsx:40, Math.random().toString(36).substring(2, 15); two draws may
\* coincide.
UserIds == {"u1", "u2"}

\* page.tsx:38, generateKeyPair(): which pair a user of the page holds has no
\* part in the page's flow (each user encrypts to and decrypts with their own
\* pair), so one pair of the model stands for the pairs drawn.
PageKeyPairs == {<<"pkA", "skA">>}

\* users.find(...) that found nothing (undefined).
NoUser == [id |-> Absent, name |-> Absent, keyPair |-> <<Absent, Absent>>]

\* users.find(u => u.id === id) (page.tsx:66, 99, 125): the first match.
RECURSIVE find(_, _)
find(us, id) ==
  IF us = <<>> THEN NoUser
  ELSE IF Head(us).id = id THEN Head(us)
  ELSE find(Tail(us), id)

\* userPublicKeys[userId] = publicKey on the map under construction
\* (page.tsx:68): a key already there keeps its place.
SetEntry(m, userId, publicKey) ==
  IF \E i \in 1..Len(m) : m[i][1] = userId
  THEN [i \in 1..Len(m) |-> IF m[i][1] = userId THEN <<userId, publicKey>> ELSE m[i]]
  ELSE Append(m, <<userId, publicKey>>)

\* page.tsx:63-70, the map of the selected users' public keys
RECURSIVE CollectPublicKeys(_, _, _)
CollectPublicKeys(selected, us, m) ==
  IF selected = <<>> THEN m
  ELSE LET userId == Head(selected)
           user == find(us, userId)
       IN CollectPublicKeys(Tail(selected), us,
            IF user = NoUser THEN m ELSE SetEntry(m, userId, user.keyPair[1]))

\* A ledger that would put the newest record first: not what the code does,
\* kept to show C16 tells them apart.
trackSuccessFirst(prev, user, now) ==
  <<[user |-> user.name, success |-> TRUE, timestamp |-> now]>> \o prev

\* page.tsx:115-119, setDecryptionAttempts(prev => [...prev, {...}])
trackSuccess(prev, user, now) ==
  Append(prev, [user |-> user.name, success |-> TRUE, timestamp |-> now])

\* A catch block that would not log: not what the code does, kept to show
\* C17 tells them apart.
trackFailureNot(prev, user, now) == prev

\* page.tsx:129-133; user?.name || 'Unknown'
trackFailure(prev, user, now) ==
  Append(prev, [user |-> IF user = NoUser \/ user.name = "" THEN "Unknown"
                         ELSE user.name,
                success |-> FALSE, timestamp |-> now])

\* page.tsx:36-48, createUser(name) with the id and the key pair drawn in it.
createUser ==
  /\ Len(page.users) < MaxPageUsers
  /\ \E name \in Names, id \in UserIds, keyPair \in PageKeyPairs :
       page' = [page EXCEPT
                  !.users = Append(@, [id |-> id, name |-> name, keyPair |-> keyPair])]
  /\ last' = NoCall
  /\ UNCHANGED <<env, plain, tampered, heap>>

\* page.tsx:215, the textarea
changeData ==
  /\ \E d \in Plaintexts : page' = [page EXCEPT !.dataToEncrypt = d]
  /\ last' = NoCall
  /\ UNCHANGED <<env, plain, tampered, heap>>

\* page.tsx:228-234, the checkbox of one user: checked shows
\* selectedUsers.includes(user.id), a click inverts it.
toggleUser ==
  /\ \E i \in 1..Len(page.users) :
       LET id == page.users[i].id
       IN page' = [page EXCEPT
                     !.selectedUsers =
                        IF Includes(page.selectedUsers, id)
                        THEN FilterOut(page.selectedUsers, id)
                        ELSE Append(page.selectedUsers, id)]
  /\ last' = NoCall
  /\ UNCHANGED <<env, plain, tampered, heap>>

\* page.tsx:270-281, the select: the empty option or one user's id.
selectDecryptUser ==
  /\ \E v \in {""} \cup {page.users[i].id : i \in 1..Len(page.users)} :
       page' = [page EXCEPT !.selectedDecryptUser = v]
  /\ last' = NoCall
  /\ UNCHANGED <<env, plain, tampered, heap>>

\* page.tsx:51-86
encryptData ==
  /\ \E aesKey \in AesKeys, iv \in Ivs, now \in Times :
       IF page.dataToEncrypt = "" \/ Len(page.selectedUsers) = 0
       THEN /\ page' = [page EXCEPT
                          !.error = "Please enter data and select at least one user"]
            /\ last' = NoCall
            /\ UNCHANGED <<env, plain>>
       ELSE LET userPublicKeys == CollectPublicKeys(page.selectedUsers, page.users, <<>>)
                r == encryptForMultipleUsers(page.dataToEncrypt, userPublicKeys,
                                             "demo-user", aesKey, iv, now)
                out == IF r.threw THEN NoEnv ELSE r.val
            IN /\ page' = [page EXCEPT
                             !.loading = FALSE,
                             !.error = IF r.threw THEN "Encryption failed" ELSE "",
                             !.decryptionAttempts = <<>>]
               /\ env' = IF r.threw THEN env ELSE out
               /\ plain' = IF r.threw THEN plain ELSE page.dataToEncrypt
               /\ last' = Call("build", NoEnv, out, r, userPublicKeys,
                               page.dataToEncrypt, Absent, Absent, Absent, Absent,
                               NoResult, <<>>)
  /\ UNCHANGED <<tampered, heap>>

\* page.tsx:89-140
decryptData ==
  /\ Len(page.decryptionAttempts) < MaxAttempts
  /\ \E o \in Oracles, now \in Times :
       IF env = NoEnv \/ page.selectedDecryptUser = ""
       THEN /\ page' = [page EXCEPT
                          !.error = "Please select encrypted data and a user to decrypt"]
            /\ last' = NoCall
       ELSE LET user == find(page.users, page.selectedDecryptUser)
                run == decryptForUserRun(env, page.selectedDecryptUser,
                                         user.keyPair[2], o)
                result == IF run.threw THEN NoResult ELSE run.val
                shown == user # NoUser /\ result.success
                           /\ result.data \notin {Absent, ""}
            IN /\ page' =
                    IF shown
                    THEN [page EXCEPT
                            !.loading = FALSE,
                            !.error = "",
                            !.decryptedData = result.data,
                            !.decryptionAttempts = trackSuccess(@, user, now)]
                    ELSE [page EXCEPT
                            !.loading = FALSE,
                            !.error = "Decryption failed",
                            !.decryptedData = "",
                            !.decryptionAttempts = trackFailure(@, user, now)]
               /\ last' = IF user = NoUser THEN NoCall
                          ELSE Call("decrypt", env, NoEnv, run, <<>>, Absent,
                                    page.selectedDecryptUser, Absent,
                                    user.keyPair[2], Absent, result, run.calls)
  /\ UNCHANGED <<env, plain, tampered, heap>>

NextPage ==
  createUser \/ changeData \/ toggleUser \/ selectDecryptUser
    \/ encryptData \/ decryptData

SpecPage == Init /\ [][NextPage]_vars

\* ------------------------------------------- the envelopes as heap objects
\* An EncryptedData is an object whose encryptedKeys, authorizedUsers and
\* metadata are objects of their own; heap[r] is the object with reference r.
\* Every reference the caller ever got stays usable.

\* Most objects on the heap (a build makes four, a grant or a revocation three).
MaxObjects == 10

HeapIds == {"alice", "bob", "__proto__"}
HeapMaps ==
  {<<>>, <<<<"alice", "pkA">>>>, <<<<"alice", "pkA">>, <<"bob", "pkB">>>>}

\* A new object: the heap with it, and its reference.
Alloc(h, obj) == [heap |-> Append(h, obj), ref |-> Len(h) + 1]

\* The references of the envelope objects.
EnvelopeRefs(h) == {r \in 1..Len(h) : h[r].kind = "EncryptedData"}

\* The value of the envelope object e: its fields, references followed.
Deref(h, e) ==
  [ciphertext |-> h[e].ciphertext,
   iv |-> h[e].iv,
   encryptedKeys |-> h[h[e].encryptedKeys].props,
   authorizedUsers |-> h[h[e].authorizedUsers].items,
   metadata |-> h[h[e].metadata].fields]

\* What a call leaves: the heap, the reference returned (0: none, it threw).
Left(h, ref) == [heap |-> h, ref |-> ref]

\* multiUserEncryption.ts:31-50: encryptedKeys = {} and authorizedUsers = []
\* are new objects, filled by the loop; the object literals at 40 and 45 are
\* new objects.
heapEncryptForMultipleUsers(h, data, userPublicKeys, encryptedBy, aesKey, iv, now) ==
  LET r == encryptForMultipleUsers(data, userPublicKeys, encryptedBy, aesKey, iv, now)
      k == Alloc(h, [kind |-> "Record", props |-> r.val.encryptedKeys])
      a == Alloc(k.heap, [kind |-> "Array", items |-> r.val.authorizedUsers])
      m == Alloc(a.heap, [kind |-> "metadata", fields |-> r.val.metadata])
      e == Alloc(m.heap, [kind |-> "EncryptedData",
                          ciphertext |-> r.val.ciphertext, iv |-> r.val.iv,
                          encryptedKeys |-> k.ref, authorizedUsers |-> a.ref,
                          metadata |-> m.ref])
  IN IF r.threw THEN Left(h, 0) ELSE Left(e.heap, e.ref)

\* multiUserEncryption.ts:59-97: reads of the envelope only.
heapDecryptForUser(h, e, userId, privateKey, o) == Left(h, 0)

\* authorizedUsers.push(newUserId) on the array given: not what the code
\* does, kept to show C19 tells them apart.
pushInPlace(h, a, x) == Left([h EXCEPT ![a].items = Append(@, x)], a)

\* multiUserEncryption.ts:135, [...encryptedData.authorizedUsers, newUserId]:
\* a new array.
spreadAppend(h, a, x) ==
  LET n == Alloc(h, [kind |-> "Array", items |-> Append(h[a].items, x)])
  IN Left(n.heap, n.ref)

\* multiUserEncryption.ts:102-140: the object literal at 129 is a new object
\* with the fields of the one given (...encryptedData copies the reference
\* to metadata), a new encryptedKeys object (131-134) and a new array.
heapAddUserAccess(h, e, newUserId, newUserPublicKey, decryptorUserId, decryptorPrivateKey, o) ==
  LET r == addUserAccess(Deref(h, e), newUserId, newUserPublicKey,
                         decryptorUserId, decryptorPrivateKey, o)
      k == Alloc(h, [kind |-> "Record", props |-> r.val.encryptedKeys])
      a == spreadAppend(k.heap, h[e].authorizedUsers, newUserId)
      out == Alloc(a.heap, [h[e] EXCEPT !.encryptedKeys = k.ref,
                                        !.authorizedUsers = a.ref])
  IN IF r.threw THEN Left(h, 0) ELSE Left(out.heap, out.ref)

\* multiUserEncryption.ts:145-157: remainingKeys (150) is a new object,
\* filter (155) returns a new array, the object literal at 152 is a new
\* object.
heapRemoveUserAccess(h, e, userIdToRemove) ==
  LET k == Alloc(h, [kind |-> "Record",
                     props |-> Omit(h[h[e].encryptedKeys].props, userIdToRemove)])
      a == Alloc(k.heap, [kind |-> "Array",
                          items |-> FilterOut(h[h[e].authorizedUsers].items,
                                              userIdToRemove)])
      out == Alloc(a.heap, [h[e] EXCEPT !.encryptedKeys = k.ref,
                                        !.authorizedUsers = a.ref])
  IN Left(out.heap, out.ref)

\* multiUserEncryption.ts:162-165: reads of the envelope only.
heapHasAccess(h, e, userId) == Left(h, 0)

HeapBuild ==
  /\ last.op = "none"
  /\ heap = <<>>
  /\ \E m \in HeapMaps, aesKey \in AesKeys, iv \in Ivs, now \in Times :
       LET l == heapEncryptForMultipleUsers(heap, "secret-42", m, "demo-user",
                                            aesKey, iv, now)
       IN /\ heap' = l.heap
          /\ last' = Call("build", NoEnv, Deref(l.heap, l.ref), Ok(Absent), m,
                          "secret-42", Absent, Absent, Absent, Absent, NoResult, <<>>)
  /\ UNCHANGED <<env, plain, tampered, page>>

HeapDecrypt ==
  /\ last.op = "none"
  /\ \E e \in EnvelopeRefs(heap), userId \in HeapIds,
        privateKey \in {"skA", "skB"}, o \in Oracles :
       LET run == decryptForUserRun(Deref(heap, e), userId, privateKey, o)
       IN /\ heap' = heapDecryptForUser(heap, e, userId, privateKey, o).heap
          /\ last' = Call("decrypt", Deref(heap, e), NoEnv, run, <<>>, Absent,
                          userId, Absent, privateKey, Absent, run.val, run.calls)
  /\ UNCHANGED <<env, plain, tampered, page>>

HeapGrant ==
  /\ last.op = "none"
  /\ Len(heap) + 3 <= MaxObjects
  /\ \E e \in EnvelopeRefs(heap), newUserId \in HeapIds,
        newUserPublicKey \in {"pkA", "pkB"}, decryptorUserId \in HeapIds,
        decryptorPrivateKey \in {"skA", "skB"}, o \in Oracles :
       LET r == addUserAccess(Deref(heap, e), newUserId, newUserPublicKey,
                              decryptorUserId, decryptorPrivateKey, o)
           l == heapAddUserAccess(heap, e, newUserId, newUserPublicKey,
                                  decryptorUserId, decryptorPrivateKey, o)
       IN /\ heap' = l.heap
          /\ last' = Call("grant", Deref(heap, e),
                          IF l.ref = 0 THEN NoEnv ELSE Deref(l.heap, l.ref), r,
                          <<>>, Absent, newUserId, newUserPublicKey,
                          decryptorPrivateKey, decryptorUserId, NoResult, <<>>)
  /\ UNCHANGED <<env, plain, tampered, page>>

HeapRevoke ==
  /\ last.op = "none"
  /\ Len(heap) + 3 <= MaxObjects
  /\ \E e \in EnvelopeRefs(heap), userIdToRemove \in HeapIds :
       LET l == heapRemoveUserAccess(heap, e, userIdToRemove)
       IN /\ heap' = l.heap
          /\ last' = Call("revoke", Deref(heap, e), Deref(l.heap, l.ref),
                          Ok(Absent), <<>>, Absent, userIdToRemove, Absent, Absent,
                          Absent, NoResult, <<>>)
  /\ UNCHANGED <<env, plain, tampered, page>>

HeapHasAccess ==
  /\ last.op = "none"
  /\ \E e \in EnvelopeRefs(heap), userId \in HeapIds :
       /\ heap' = heapHasAccess(heap, e, userId).heap
       /\ last' = Call("hasAccess", Deref(heap, e), NoEnv, Ok(Absent), <<>>,
                       Absent, userId, Absent, Absent, Absent, NoResult, <<>>)
  /\ UNCHANGED <<env, plain, tampered, page>>

NextHeap ==
  HeapBuild \/ HeapDecrypt \/ HeapGrant \/ HeapRevoke \/ HeapHasAccess
    \/ Continue

SpecHeap == Init /\ [][NextHeap]_vars

\* -------------------------------------------------------------- properties
\* The ids of a recipient map.
MapIds(m) == {m[i][1] : i \in 1..Len(m)}

\* The elements of a sequence.
Elements(q) == {q[i] : i \in 1..Len(q)}

\* The error kinds of the specification, read off the messages of the code:
\* the cause, innermost in the chain, is the guard of decryptForUser, a
\* failure of decryptWithRSA or a failure of decryptWithAES.
ErrorKind(error) ==
  IF error = <<>> THEN "none"
  ELSE IF error[Len(error)] = AccessDeniedMsg THEN "AccessDenied"
  ELSE IF error[Len(error)] = "RSA decryption failed" THEN "KeyRecoveryFailed"
  ELSE IF error[Len(error)] = "AES decryption failed" THEN "PayloadDecryptionFailed"
  ELSE "untyped"

AccessDeniedResult(userId) == Result(FALSE, Absent, <<AccessDeniedMsg>>, userId)

\* C1 (round trip): for every plaintext, the empty one included, and every
\* recipient of the map an envelope was built for, decryptForUser on the
\* envelope built, with that id and the private key belonging to the public
\* key given for it, returns success with the plaintext.
C1_RoundTrip ==
  (last.op = "build" /\ ~last.threw) =>
    \A i \in 1..Len(last.map), sk \in PrivateKeys, o \in Oracles :
      <<last.map[i][2], sk>> \in KeyPairs =>
        decryptForUser(last.out, last.map[i][1], sk, o)
          = Result(TRUE, last.data, <<>>, last.map[i][1])

\* C2 (I1): in every envelope built and then edited by any calls of
\* addUserAccess and removeUserAccess, the keys of encryptedKeys are exactly
\* the elements of authorizedUsers.
C2_KeysMatchUsers ==
  env # NoEnv => DOMAIN env.encryptedKeys = Elements(env.authorizedUsers)

\* C3 (exclusion): for every id that is not in the recipient map an envelope
\* was built for, and any private key, decryptForUser on the envelope built
\* returns the access-denied result, without data.
C3_Exclusion ==
  (last.op = "build" /\ ~last.threw) =>
    \A userId \in Ids \ MapIds(last.map), sk \in PrivateKeys, o \in Oracles :
      decryptForUser(last.out, userId, sk, o) = AccessDeniedResult(userId)

\* C4 (wrong key): a recipient of the map an envelope was built for who
\* supplies a private key that does not belong to the public key given for
\* them gets success=false with the key-recovery error, and no data.
C4_WrongKey ==
  (last.op = "build" /\ ~last.threw) =>
    \A i \in 1..Len(last.map), sk \in PrivateKeys, o \in Oracles :
      <<last.map[i][2], sk>> \notin KeyPairs =>
        LET r == decryptForUser(last.out, last.map[i][1], sk, o)
        IN /\ ~r.success
           /\ r.data = Absent
           /\ ErrorKind(r.error) = "KeyRecoveryFailed"

\* C5 (grant preserves payload): whenever addUserAccess returns an envelope,
\* its ciphertext and iv are those of the envelope given, and decryptForUser
\* on it with newUserId and the private key belonging to newUserPublicKey
\* returns success with the original plaintext.
C5_GrantPreservesPayload ==
  (last.op = "grant" /\ ~last.threw) =>
    /\ last.out.ciphertext = last.in.ciphertext
    /\ last.out.iv = last.in.iv
    /\ \A sk \in PrivateKeys, o \in Oracles :
         <<last.pk, sk>> \in KeyPairs =>
           decryptForUser(last.out, last.id, sk, o)
             = Result(TRUE, plain, <<>>, last.id)

\* C7 (authorization check first): for an envelope reached by build, grant
\* and revoke and an id that is no key of encryptedKeys, decryptForUser
\* returns the access-denied result for that id and has invoked neither
\* decryptWithRSA nor decryptWithAES, whatever the private key.
C7_DeniedBeforeDecrypting ==
  (last.op = "decrypt" /\ last.id \notin DOMAIN last.in.encryptedKeys) =>
    /\ ~last.threw
    /\ last.res = AccessDeniedResult(last.id)
    /\ last.calls = <<>>

\* Whether private key sk unwraps what is stored under id in envelope e.
Unwraps(e, id, sk) ==
  /\ id \in DOMAIN e.encryptedKeys
  /\ e.encryptedKeys[id].t = "rsa"
  /\ <<e.encryptedKeys[id].pk, sk>> \in KeyPairs

\* C9 (grant needs a credential, fails atomically): when decryptorUserId is
\* no key of encryptedKeys the call fails with AccessDenied, when its private
\* key does not unwrap that id's wrapped key it fails with KeyRecoveryFailed;
\* either way no envelope is returned and the envelope held stays as it was.
C9_GrantFailsTyped ==
  (last.op = "grant" /\ ~Unwraps(last.in, last.via, last.sk)) =>
    /\ last.threw
    /\ last.out = NoEnv
    /\ env = last.in
    /\ ErrorKind(last.error) =
         (IF last.via \in DOMAIN last.in.encryptedKeys
          THEN "KeyRecoveryFailed" ELSE "AccessDenied")

\* Whether recipient id recovers the plaintext from envelope e with key sk.
Recovers(e, id, sk, o) == decryptForUser(e, id, sk, o) = Result(TRUE, plain, <<>>, id)

\* C6 (revoke is structural): after removeUserAccess(env, id) the id has no
\* access by hasAccess and is not in authorizedUsers, and every other id that
\* recovered the plaintext from env with some private key recovers the same
\* plaintext from the envelope returned.
C6_RevokeStructural ==
  last.op = "revoke" =>
    /\ ~hasAccess(last.out, last.id)
    /\ ~Includes(last.out.authorizedUsers, last.id)
    /\ \A other \in Ids \ {last.id}, sk \in PrivateKeys, o \in Oracles :
         Recovers(last.in, other, sk, o) => Recovers(last.out, other, sk, o)

\* A revocation of an id that had access, with another recipient who recovers
\* the plaintext before it.
C6_Witness ==
  /\ last.op = "revoke"
  /\ hasAccess(last.in, last.id)
  /\ \E other \in Ids \ {last.id}, sk \in PrivateKeys, o \in Oracles :
       Recovers(last.in, other, sk, o) /\ Recovers(last.out, other, sk, o)

\* C8 (the reader never throws): for every envelope, damaged ones included,
\* every id and every private key, decryptForUser returns a DecryptionResult
\* for that id, and whenever the guard refuses or a primitive raises the
\* result has success=false and no data.
C8_ReaderNeverThrows ==
  last.op = "decrypt" =>
    /\ ~last.threw
    /\ last.res.userId = last.id
    /\ \A o \in Oracles :
         LET try == decryptForUserTry(last.in, last.id, last.sk, o)
             run == decryptForUserRun(last.in, last.id, last.sk, o)
         IN /\ ~run.threw
            /\ run.val.userId = last.id
            /\ (try.threw \/ Falsy(Get(last.in.encryptedKeys, last.id))) =>
                 (~run.val.success /\ run.val.data = Absent)

\* A read of a damaged envelope in which decryptWithAES raised.
C8_Witness ==
  /\ tampered
  /\ last.op = "decrypt"
  /\ ~last.threw
  /\ ~last.res.success
  /\ last.calls = <<"decryptWithRSA", "decryptWithAES">>
  /\ ErrorKind(last.res.error) = "PayloadDecryptionFailed"

\* Whether wrapping a key under publicKey fails.
WrapFails(publicKey) == \A k \in AesKeys : encryptWithRSA(k, publicKey).threw

\* C10 (build fails atomically): when wrapping fails for one recipient of the
\* map, encryptForMultipleUsers throws its build failure and returns no
\* envelope, whatever was wrapped before the failure.
C10_BuildFailsAtomically ==
  (last.op = "build" /\ \E i \in 1..Len(last.map) : WrapFails(last.map[i][2])) =>
    /\ last.threw
    /\ last.error[1] = "Multi-user encryption failed"
    /\ last.out = NoEnv
    /\ env = NoEnv

\* A build that failed at its second recipient, the first one wrapped.
C10_Witness ==
  /\ last.op = "build"
  /\ last.threw
  /\ Len(last.map) = 2
  /\ ~WrapFails(last.map[1][2])
  /\ WrapFails(last.map[2][2])

\* C12 (hasAccess): for every envelope, also one whose two structures
\* disagree, hasAccess(envelope, id) is true exactly when id is an element of
\* authorizedUsers and a key of encryptedKeys.
C12_HasAccessIff ==
  env # NoEnv =>
    \A id \in Ids :
      hasAccess(env, id) <=>
        (Includes(env.authorizedUsers, id) /\ id \in DOMAIN env.encryptedKeys)

\* C13 (revoke never fails, no-op on absent ids, idempotent): every call of
\* removeUserAccess returns an envelope; for an id in neither encryptedKeys
\* nor authorizedUsers the envelope returned equals the one given, and
\* revoking the same id again changes nothing.
C13_RevokeNoOpIdempotent ==
  last.op = "revoke" =>
    /\ ~last.threw
    /\ last.out # NoEnv
    /\ env = last.out
    /\ (last.id \notin DOMAIN last.in.encryptedKeys
          /\ ~Includes(last.in.authorizedUsers, last.id)) => last.out = last.in
    /\ removeUserAccess(last.out, last.id) = last.out

\* A revocation of an id that is in neither structure of an envelope with
\* recipients.
C13_Witness ==
  /\ last.op = "revoke"
  /\ last.id \notin DOMAIN last.in.encryptedKeys
  /\ ~Includes(last.in.authorizedUsers, last.id)
  /\ Len(last.in.authorizedUsers) >= 1
  /\ last.out = last.in

\* C14 (what a build returns): the envelope built for a recipient map has
\* exactly the map's ids as keys of encryptedKeys and the ids in the map's
\* order as authorizedUsers; the envelope built for the empty map answers
\* every decryptForUser with the access-denied result.
C14_BuildShape ==
  (last.op = "build" /\ ~last.threw) =>
    /\ DOMAIN last.out.encryptedKeys = MapIds(last.map)
    /\ last.out.authorizedUsers = [i \in 1..Len(last.map) |-> last.map[i][1]]
    /\ last.map = <<>> =>
         \A userId \in Ids, sk \in PrivateKeys, o \in Oracles :
           decryptForUser(last.out, userId, sk, o) = AccessDeniedResult(userId)

\* The envelope e with the wrapped key of id taken from envelope old.
WithRetainedKey(e, old, id) ==
  [e EXCEPT !.encryptedKeys = DefineOwn(e.encryptedKeys, id, old.encryptedKeys[id])]

\* C18 (revocation is no re-keying): removeUserAccess leaves ciphertext, iv
\* and the remaining wrapped keys as they were; a revoked recipient who
\* recovered the plaintext before recovers it from the wrapped key they kept,
\* and is denied on the envelope returned.
C18_RevokeKeepsKeyMaterial ==
  last.op = "revoke" =>
    /\ last.out.ciphertext = last.in.ciphertext
    /\ last.out.iv = last.in.iv
    /\ \A k \in DOMAIN last.out.encryptedKeys :
         last.out.encryptedKeys[k] = last.in.encryptedKeys[k]
    /\ \A sk \in PrivateKeys, o \in Oracles :
         Recovers(last.in, last.id, sk, o) =>
           /\ Recovers(WithRetainedKey(last.out, last.in, last.id), last.id, sk, o)
           /\ decryptForUser(last.out, last.id, sk, o) = AccessDeniedResult(last.id)

\* C20 (grant frame): the envelope a successful addUserAccess returns has
\* the metadata and every wrapped key of another id as given, has a wrapped
\* key for newUserId under newUserPublicKey, and has as authorizedUsers the
\* given sequence with newUserId appended.
C20_GrantFrame ==
  (last.op = "grant" /\ ~last.threw) =>
    /\ last.out.metadata = last.in.metadata
    /\ DOMAIN last.out.encryptedKeys = DOMAIN last.in.encryptedKeys \cup {last.id}
    /\ \A k \in DOMAIN last.in.encryptedKeys \ {last.id} :
         last.out.encryptedKeys[k] = last.in.encryptedKeys[k]
    /\ last.out.encryptedKeys[last.id].t = "rsa"
    /\ last.out.encryptedKeys[last.id].pk = last.pk
    /\ last.out.authorizedUsers = Append(last.in.authorizedUsers, last.id)
    /\ env = last.out

\* A successful grant to a new id on an envelope that has another recipient.
C20_Witness ==
  /\ last.op = "grant"
  /\ ~last.threw
  /\ last.id \notin DOMAIN last.in.encryptedKeys
  /\ DOMAIN last.in.encryptedKeys # {}
  /\ last.out.authorizedUsers = Append(last.in.authorizedUsers, last.id)

\* Whether sequence p is the beginning of sequence q.
IsPrefix(p, q) == Len(p) <= Len(q) /\ SubSeq(q, 1, Len(p)) = p

C17_AttemptRecorded ==
  [][last'.op = "decrypt" =>
       /\ Len(page'.decryptionAttempts) = Len(page.decryptionAttempts) + 1
       /\ IsPrefix(page.decryptionAttempts, page'.decryptionAttempts)
       /\ LET record == page'.decryptionAttempts[Len(page'.decryptionAttempts)]
          IN /\ record.success = last'.res.success
             /\ record.user = find(page.users, last'.id).name]_vars

\* A failed attempt (access denied) of a user of the page, recorded under
\* the user's name.
C17_Witness ==
  /\ last.op = "decrypt"
  /\ last.res = AccessDeniedResult(last.id)
  /\ Len(page.decryptionAttempts) >= 1
  /\ LET record == page.decryptionAttempts[Len(page.decryptionAttempts)]
     IN ~record.success /\ record.user = find(page.users, last.id).name

\* The strings an envelope holds in the clear: every field but the
\* ciphertext and the RSA wrappings.
InClear(e) ==
  {e.iv, e.metadata.timestamp, e.metadata.encryptedBy, e.metadata.algorithm}
    \cup Elements(e.authorizedUsers)
    \cup DOMAIN e.encryptedKeys
    \cup {e.encryptedKeys[id].key :
            id \in {x \in DOMAIN e.encryptedKeys : e.encryptedKeys[x].t # "rsa"}}

\* C15 as stated (I2): in every envelope returned by encryptForMultipleUsers,
\* addUserAccess or removeUserAccess neither the symmetric key nor the iv the
\* ciphertext was produced with is held in the clear.
C15_KeyAndIvNotInClear ==
  env # NoEnv =>
    /\ env.ciphertext.key \notin InClear(env)
    /\ env.ciphertext.iv \notin InClear(env)

\* C15 as amended: the symmetric key is not held in the clear, every value
\* of encryptedKeys is an RSA wrapping, and the iv the ciphertext was
\* produced with is the field iv, in the clear.
C15_KeyNotInClear ==
  env # NoEnv =>
    /\ env.ciphertext.key \notin InClear(env)
    /\ \A id \in DOMAIN env.encryptedKeys : env.encryptedKeys[id].t = "rsa"
    /\ env.iv = env.ciphertext.iv

\* An envelope after a successful grant, the key held in two wrappings.
C15_Witness ==
  /\ last.op = "grant"
  /\ ~last.threw
  /\ Cardinality({id \in DOMAIN env.encryptedKeys :
                    env.encryptedKeys[id].key = env.ciphertext.key}) = 2

\* C19 (no operation mutates its input): every object that is on the heap
\* before a call of decryptForUser, addUserAccess, removeUserAccess or
\* hasAccess is the same after it, so every envelope given to a call has all
\* its fields as before (decryptForUser and hasAccess read nothing else, so
\* they return on it what they would have returned before the call).
C19_InputsNotMutated ==
  [][/\ \A r \in 1..Len(heap) : r <= Len(heap') /\ heap'[r] = heap[r]
     /\ \A e \in EnvelopeRefs(heap) :
          /\ e \in EnvelopeRefs(heap')
          /\ Deref(heap', e) = Deref(heap, e)
     /\ last'.op \in {"decrypt", "hasAccess"} => heap' = heap]_vars

\* After a successful grant on the first envelope: that envelope is as it
\* was given, the envelope returned is another object with another array.
C19_Witness ==
  /\ last.op = "grant"
  /\ ~last.threw
  /\ Cardinality(EnvelopeRefs(heap)) = 2
  /\ \E e \in EnvelopeRefs(heap) :
       /\ Deref(heap, e) = last.in
       /\ Deref(heap, Len(heap)) = last.out
       /\ heap[e].authorizedUsers # heap[Len(heap)].authorizedUsers
       /\ heap[e].metadata = heap[Len(heap)].metadata

\* Whether no element of sequence s is there twice.
NoDuplicates(s) == \A i, j \in 1..Len(s) : s[i] = s[j] => i = j

\* C21 (recipient ids stay unique): in every envelope reached by build,
\* addUserAccess and removeUserAccess, granting an id that already has access
\* included, authorizedUsers holds no id twice, and the authorizedUserCount
\* of getEncryptionInfo is the number of keys of encryptedKeys.
C21_RecipientsUnique ==
  env # NoEnv =>
    /\ NoDuplicates(env.authorizedUsers)
    /\ getEncryptionInfo(env).authorizedUserCount
         = Cardinality(DOMAIN env.encryptedKeys)

\* C22 (grant never reduces access): after a successful addUserAccess every
\* id and private key that recovered the plaintext from the envelope given
\* recovers the same plaintext from the envelope returned, also when
\* newUserId already had a wrapped key and newUserPublicKey is another key
\* than the one it was wrapped under.
C22_GrantKeepsAccess ==
  (last.op = "grant" /\ ~last.threw) =>
    \A id \in Ids, sk \in PrivateKeys, o \in Oracles :
      Recovers(last.in, id, sk, o) => Recovers(last.out, id, sk, o)

\* C23 (access is extended only by someone who has it): the keys of
\* encryptedKeys come from the recipient map of the build or from an
\* addUserAccess whose decryptorUserId was a key of encryptedKeys whose entry
\* the private key given unwrapped; removeUserAccess adds none.  On an
\* envelope without wrapped keys every addUserAccess fails, and every
\* envelope derived from it has none.
C23_AccessExtendedByHolders ==
  [][/\ (last'.op = "build" /\ ~last'.threw) =>
          DOMAIN env'.encryptedKeys \subseteq MapIds(last'.map)
     /\ (last'.op = "grant" /\ ~last'.threw) =>
          /\ Unwraps(env, last'.via, last'.sk)
          /\ DOMAIN env'.encryptedKeys \subseteq DOMAIN env.encryptedKeys \cup {last'.id}
     /\ (last'.op = "grant" /\ last'.threw) => env' = env
     /\ last'.op = "revoke" =>
          DOMAIN env'.encryptedKeys \subseteq DOMAIN env.encryptedKeys
     /\ (env # NoEnv /\ DOMAIN env.encryptedKeys = {}) =>
          /\ last'.op = "grant" => last'.threw
          /\ DOMAIN env'.encryptedKeys = {}]_vars

\* C24 (the two authorization checks agree): for every envelope reached by
\* build, addUserAccess and removeUserAccess and every id, hasAccess is true
\* exactly when decryptForUser for that id, whatever the private key, does
\* not return the access-denied result.
C24_ChecksAgree ==
  env # NoEnv =>
    \A id \in Ids, sk \in PrivateKeys, o \in Oracles :
      hasAccess(env, id) <=> decryptForUser(env, id, sk, o) # AccessDeniedResult(id)

\* C25 (DecryptionResult is well-formed): whatever path decryptForUser
\* takes, on damaged envelopes too, the result carries the id asked for; a
\* result with success=true has data, not empty, and no error; a result
\* with success=false has an error and no data.
C25_ResultWellFormed ==
  last.op = "decrypt" =>
    /\ ~last.threw
    /\ last.res.userId = last.id
    /\ last.res.success =>
         (last.res.data \notin {Absent, ""} /\ last.res.error = <<>>)
    /\ ~last.res.success =>
         (last.res.error # <<>> /\ last.res.data = Absent)

\* A recipient reading an envelope built from the empty plaintext with the
\* private key that unwraps their entry: both primitives ran and the result
\* is a failure of decryptWithAES, without data.
C25_Witness ==
  /\ last.op = "decrypt"
  /\ plain = ""
  /\ ~tampered
  /\ Unwraps(last.in, last.id, last.sk)
  /\ last.calls = <<"decryptWithRSA", "decryptWithAES">>
  /\ ~last.res.success
  /\ last.res.data = Absent
  /\ ErrorKind(last.res.error) = "PayloadDecryptionFailed"

====
